---------------------------- MODULE Spec2Model ----------------------------
(***************************************************************************)
(* State-pattern machines of design-patterns-by-claude/rust/src/state.rs:  *)
(* the vending machine, the traffic light and the game character.          *)
(*                                                                         *)
(* Each machine is a record holding the fields of its struct.  A state     *)
(* object (Box<dyn ...State>) is its state name; the attacking character   *)
(* state also carries its attack_timer.  A handler is an operator from     *)
(* (state object, machine, input) to the machine it leaves behind and the  *)
(* Result it returns; the public methods of the machines wrap the handlers *)
(* exactly as the source does (mem::replace, call, assign back).           *)
(*                                                                         *)
(* A Result<String, String> is [ok, msg, args]: msg is the literal text of *)
(* the message, args the values formatted into it.                         *)
(*                                                                         *)
(* f32 quantities of the character are fixed-point integers: time in       *)
(* tenths of a second, velocity in cm/s, height in mm (cm/s * 0.1 s).      *)
(* GameCharacter.position.0 and GameCharacter.animation_time are           *)
(* accumulators that no guard and no handler reads; they are not part of   *)
(* the state here.                                                         *)
(***************************************************************************)
EXTENDS Integers, Sequences, FiniteSets, TLC

VARIABLES vm, vmHist, vmSold, vmCoins, vmWide, tl, tlHist, tlRun, tlSince,
          gc, gcLast, gcFrames

vars == <<vm, vmHist, vmSold, vmCoins, vmWide, tl, tlHist, tlRun, tlSince,
          gc, gcLast, gcFrames>>

---------------------------------------------------------------------------
(* Bounds of the exploration *)

\* calls remembered per machine (the most recent ones)
HistLen == 3
\* insert_coin is explored while the total stays within this many cents
MaxInserted == 300
\* the count of ticks since construction saturates here
MaxTicks == 33
\* with the public setters in play: insert_coin is explored while the total
\* stays within this many cents, and units are dispensed up to this many
MaxInsertedApi == 150
MaxSold == 1
\* coins are counted while the count stays within this many cents
MaxCoins == 100
\* a way back to Idle, or to a state, is looked for within this many calls
MaxEvents == 3
\* with the public set_state of the character in play: update is explored
\* for this many frames
MaxFrames == 4
MaxWideCalls == 3

---------------------------------------------------------------------------
(* Results *)

Ok(msg, args) == [ok |-> TRUE, msg |-> msg, args |-> args]
Err(msg, args) == [ok |-> FALSE, msg |-> msg, args |-> args]

\* the window of the most recent HistLen calls
Push(hist, rec) ==
    IF Len(hist) < HistLen THEN Append(hist, rec) ELSE Append(Tail(hist), rec)

---------------------------------------------------------------------------
(* Vending machine *)

ProductIds == {"A1", "B1", "C1", "D1"}

\* Option<String>: <<>> is None, <<id>> is Some(id)
None == <<>>
Some(x) == <<x>>

Product_new(id, name, price, stock) ==
    [id |-> id, name |-> name, price |-> price, stock |-> stock]

VendingMachine_new ==
    [ current_state    |-> "Idle",
      products         |-> [id \in ProductIds |->
                              CASE id = "A1" -> Product_new("A1", "Soda", 150, 10)
                                [] id = "B1" -> Product_new("B1", "Chips", 125, 8)
                                [] id = "C1" -> Product_new("C1", "Candy", 100, 15)
                                [] id = "D1" -> Product_new("D1", "Water", 75, 20)],
      inserted_amount  |-> 0,
      selected_product |-> None,
      change_dispenser |-> 1000 ]

VendingMachine_set_state(machine, state) ==
    [machine EXCEPT !.current_state = state]

add_inserted_amount(machine, amount) ==
    [machine EXCEPT !.inserted_amount = @ + amount]

\* returns the machine; the amount returned by the source is the old inserted_amount
clear_inserted_amount(machine) ==
    [machine EXCEPT !.inserted_amount = 0]

set_selected_product(machine, product_id) ==
    [machine EXCEPT !.selected_product = product_id]

\* a change check that always says yes
can_make_change_Always(machine, amount) == TRUE

can_make_change(machine, amount) ==
    machine.change_dispenser >= amount

\* Result<(), String> and the machine left behind
dispense_change(machine, amount) ==
    IF machine.change_dispenser >= amount
    THEN [m |-> [machine EXCEPT !.change_dispenser = @ - amount], ok |-> TRUE]
    ELSE [m |-> machine, ok |-> FALSE]

\* inserted_amount - product_price in u32.  A difference that wraps is at
\* least 2^32 - price, above every reserve the machine can hold; it is
\* represented by the largest integer the checker has.
Wrapped == 2147483647
WrappingSub(a, b) == IF a >= b THEN a - b ELSE Wrapped

IdleState_insert_coin(machine, amount) ==
    IF amount = 0
    THEN [m |-> machine, res |-> Err("Invalid coin amount", <<>>)]
    ELSE LET m1 == add_inserted_amount(machine, amount)
             m2 == VendingMachine_set_state(m1, "HasMoney")
         IN [m |-> m2, res |-> Ok("Inserted", <<amount, m2.inserted_amount>>)]

\* an Idle handler that accepts a selection once coins are in
IdleState_select_product_Accept(machine, product_id) ==
    IF machine.inserted_amount > 0
    THEN [m |-> set_selected_product(machine, Some(product_id)),
          res |-> Ok("Selected. Dispensing...", <<product_id>>)]
    ELSE [m |-> machine, res |-> Err("Please insert coins first", <<>>)]

IdleState_select_product(machine, product_id) ==
    [m |-> machine, res |-> Err("Please insert coins first", <<>>)]

IdleState_dispense(machine) ==
    [m |-> machine, res |-> Err("No product selected", <<>>)]

\* an Idle handler that rejects a cancellation
IdleState_cancel_transaction_Err(machine) ==
    [m |-> machine, res |-> Err("No transaction to cancel", <<>>)]

IdleState_cancel_transaction(machine) ==
    [m |-> machine, res |-> Ok("No transaction to cancel", <<>>)]

HasMoneyState_insert_coin(machine, amount) ==
    IF amount = 0
    THEN [m |-> machine, res |-> Err("Invalid coin amount", <<>>)]
    ELSE LET m1 == add_inserted_amount(machine, amount)
         IN [m |-> m1, res |-> Ok("Inserted", <<amount, m1.inserted_amount>>)]

HasMoneyState_select_product(machine, product_id) ==
    IF product_id \notin DOMAIN machine.products
    THEN [m |-> machine, res |-> Err("Product not found", <<product_id>>)]
    ELSE
    LET product == machine.products[product_id]
        inserted_amount == machine.inserted_amount
    IN IF product.stock = 0
       THEN [m |-> machine, res |-> Err("Product is out of stock", <<product.name>>)]
       ELSE IF inserted_amount < product.price
       THEN [m |-> machine,
             res |-> Err("Insufficient funds. Need more",
                         <<product.price - inserted_amount>>)]
       ELSE LET change_needed == inserted_amount - product.price
            IN IF change_needed > 0 /\ ~can_make_change(machine, change_needed)
               THEN [m |-> machine, res |-> Err("Exact change required", <<>>)]
               ELSE LET m1 == set_selected_product(machine, Some(product_id))
                        m2 == VendingMachine_set_state(m1, "Dispensing")
                    IN [m |-> m2,
                        res |-> Ok("Selected. Dispensing...", <<product.name>>)]

HasMoneyState_dispense(machine) ==
    [m |-> machine, res |-> Err("Please select a product first", <<>>)]

HasMoneyState_cancel_transaction(machine) ==
    LET amount == machine.inserted_amount
        m1 == clear_inserted_amount(machine)
        m2 == VendingMachine_set_state(m1, "Idle")
    IN [m |-> m2, res |-> Ok("Transaction cancelled. Returned", <<amount>>)]

DispensingState_insert_coin(machine, amount) ==
    [m |-> machine, res |-> Err("Currently dispensing. Please wait", <<>>)]

DispensingState_select_product(machine, product_id) ==
    [m |-> machine, res |-> Err("Currently dispensing. Please wait", <<>>)]

\* the reset at the end of dispense
DispensingState_reset(machine, res) ==
    LET m1 == clear_inserted_amount(machine)
        m2 == set_selected_product(m1, None)
        m3 == VendingMachine_set_state(m2, "Idle")
    IN [m |-> m3, res |-> res]

DispensingState_dispense(machine) ==
    IF machine.selected_product = None
    THEN [m |-> machine, res |-> Err("No product selected", <<>>)]
    ELSE
    LET product_id == machine.selected_product[1]
        inserted_amount == machine.inserted_amount
    IN IF product_id \notin DOMAIN machine.products
       THEN DispensingState_reset(machine, Ok("", <<>>))
       ELSE
       LET product == machine.products[product_id]
       IN IF product.stock > 0
          THEN LET m1 == [machine EXCEPT !.products[product_id].stock = @ - 1]
                   change == WrappingSub(inserted_amount, product.price)
               IN IF change > 0
                  THEN LET d == dispense_change(m1, change)
                       IN IF d.ok
                          THEN DispensingState_reset(d.m,
                                   Ok("Dispensed. Change", <<product.name, change>>))
                          ELSE [m |-> d.m,
                                res |-> Err("Insufficient change available", <<>>)]
                  ELSE DispensingState_reset(m1, Ok("Dispensed", <<product.name>>))
          ELSE [m |-> VendingMachine_set_state(machine, "HasMoney"),
                res |-> Err("Product out of stock", <<>>)]

\* a Dispensing handler that refunds as HasMoney does
DispensingState_cancel_transaction_Refund(machine) ==
    HasMoneyState_cancel_transaction(machine)

DispensingState_cancel_transaction(machine) ==
    [m |-> machine, res |-> Err("Cannot cancel during dispensing", <<>>)]

\* a HasMoney list that leaves cancel_transaction out
get_available_actions_NoCancel(state) ==
    CASE state = "Idle"       -> <<"insert_coin">>
      [] state = "HasMoney"   -> <<"insert_coin", "select_product">>
      [] state = "Dispensing" -> <<"dispense">>

\* get_available_actions of the state object `state`
get_available_actions(state) ==
    CASE state = "Idle"       -> <<"insert_coin">>
      [] state = "HasMoney"   -> <<"insert_coin", "select_product",
                                   "cancel_transaction">>
      [] state = "Dispensing" -> <<"dispense">>

\* dynamic dispatch on the state object
State_insert_coin(state, machine, amount) ==
    CASE state = "Idle"       -> IdleState_insert_coin(machine, amount)
      [] state = "HasMoney"   -> HasMoneyState_insert_coin(machine, amount)
      [] state = "Dispensing" -> DispensingState_insert_coin(machine, amount)

State_select_product(state, machine, product_id) ==
    CASE state = "Idle"       -> IdleState_select_product(machine, product_id)
      [] state = "HasMoney"   -> HasMoneyState_select_product(machine, product_id)
      [] state = "Dispensing" -> DispensingState_select_product(machine, product_id)

State_dispense(state, machine) ==
    CASE state = "Idle"       -> IdleState_dispense(machine)
      [] state = "HasMoney"   -> HasMoneyState_dispense(machine)
      [] state = "Dispensing" -> DispensingState_dispense(machine)

State_cancel_transaction(state, machine) ==
    CASE state = "Idle"       -> IdleState_cancel_transaction(machine)
      [] state = "HasMoney"   -> HasMoneyState_cancel_transaction(machine)
      [] state = "Dispensing" -> DispensingState_cancel_transaction(machine)

\* let mut state = mem::replace(&mut self.current_state, Box::new(IdleState))
VendingMachine_take(self) == [self EXCEPT !.current_state = "Idle"]

\* a dispatcher that does not assign the taken state back
VendingMachine_put_back_Forgotten(state, r) ==
    [ m |-> r.m, res |-> r.res, installed |-> r.m.current_state ]

\* a dispatcher that leaves the slot of the state object empty
VendingMachine_put_back_Empty(state, r) ==
    [ m         |-> [r.m EXCEPT !.current_state = ""],
      res       |-> r.res,
      installed |-> r.m.current_state ]

\* self.current_state = state; result
\* `installed` records the state the handler left in self.current_state
VendingMachine_put_back(state, r) ==
    [ m         |-> [r.m EXCEPT !.current_state = state],
      res       |-> r.res,
      installed |-> r.m.current_state ]

VendingMachine_insert_coin(self, amount) ==
    LET state == self.current_state
        r == State_insert_coin(state, VendingMachine_take(self), amount)
    IN VendingMachine_put_back(state, r)

VendingMachine_select_product(self, product_id) ==
    LET state == self.current_state
        r == State_select_product(state, VendingMachine_take(self), product_id)
    IN VendingMachine_put_back(state, r)

VendingMachine_dispense(self) ==
    LET state == self.current_state
        r == State_dispense(state, VendingMachine_take(self))
    IN VendingMachine_put_back(state, r)

VendingMachine_cancel_transaction(self) ==
    LET state == self.current_state
        r == State_cancel_transaction(state, VendingMachine_take(self))
    IN VendingMachine_put_back(state, r)

VendingMachine_get_state_name(self) == self.current_state

\* inputs of the exploration
Coins == {0, 25, 50, 100, 150}
SelectIds == ProductIds \cup {"Z9"}

\* the call record kept in the history
VmRecord(op, amount, product_id, r) ==
    [op |-> op, amount |-> amount, product_id |-> product_id, res |-> r.res,
     installed |-> r.installed, pre |-> vm, post |-> r.m]

RECURSIVE SumOver(_, _)
SumOver(f, S) ==
    IF S = {} THEN 0
    ELSE LET x == CHOOSE y \in S : TRUE IN f[x] + SumOver(f, S \ {x})

\* units a call took out of stock
Removed(pre, post) ==
    SumOver([p \in ProductIds |-> pre.products[p].stock - post.products[p].stock],
            ProductIds)

\* one call of a public method: the machine it leaves and the record of the call
VmCall(op, amount, product_id, r) ==
    /\ vm' = r.m
    /\ vmHist' = Push(vmHist, VmRecord(op, amount, product_id, r))
    /\ vmSold' = vmSold + Removed(vm, r.m)
    /\ UNCHANGED <<vmCoins, vmWide, tl, tlHist, tlRun, tlSince,
                   gc, gcLast, gcFrames>>

InsertCoin ==
    \E amount \in Coins :
        /\ vm.inserted_amount + amount <= MaxInserted
        /\ VmCall("insert_coin", amount, "",
                  VendingMachine_insert_coin(vm, amount))

SelectProduct ==
    \E id \in SelectIds :
        VmCall("select_product", 0, id, VendingMachine_select_product(vm, id))

Dispense ==
    VmCall("dispense", 0, "", VendingMachine_dispense(vm))

CancelTransaction ==
    VmCall("cancel_transaction", 0, "", VendingMachine_cancel_transaction(vm))

\* The same calls on a machine the caller also sets up through the public
\* setters (set_state, dispense_change, add_product).  The history holds the
\* last dispatch call alone and is emptied by a setter; `again` says that
\* the call before it was the same call, `prior` is the machine before that
\* one (before this one when it is the first).
VmCallLast(op, amount, product_id, r) ==
    /\ vmSold + Removed(vm, r.m) <= MaxSold
    /\ vm' = r.m
    /\ vmHist' = <<VmRecord(op, amount, product_id, r)
                     @@ [again |-> Len(vmHist) = 1 /\ vmHist[1].op = op,
                         prior |-> IF Len(vmHist) = 1 /\ vmHist[1].op = op
                                   THEN vmHist[1].pre ELSE vm]>>
    /\ vmSold' = vmSold + Removed(vm, r.m)
    /\ UNCHANGED <<vmCoins, vmWide, tl, tlHist, tlRun, tlSince,
                   gc, gcLast, gcFrames>>

VmSetter(m) ==
    /\ m # vm
    /\ vm' = m
    /\ vmHist' = <<>>
    /\ UNCHANGED <<vmSold, vmCoins, vmWide, tl, tlHist, tlRun, tlSince,
                   gc, gcLast, gcFrames>>

ApiInsertCoin ==
    \E amount \in Coins :
        /\ vm.inserted_amount + amount <= MaxInsertedApi
        /\ VmCallLast("insert_coin", amount, "",
                      VendingMachine_insert_coin(vm, amount))

ApiSelectProduct ==
    \E id \in SelectIds :
        VmCallLast("select_product", 0, id,
                   VendingMachine_select_product(vm, id))

ApiDispense ==
    VmCallLast("dispense", 0, "", VendingMachine_dispense(vm))

ApiCancelTransaction ==
    VmCallLast("cancel_transaction", 0, "",
               VendingMachine_cancel_transaction(vm))

VendingStates == {"Idle", "HasMoney", "Dispensing"}

\* machine.set_state(Box::new(...)) by the caller
SetState ==
    \E state \in VendingStates : VmSetter(VendingMachine_set_state(vm, state))

\* machine.dispense_change(1000) by the caller: the reserve is paid out
DrainChange ==
    VmSetter(dispense_change(vm, 1000).m)

add_product(machine, product) ==
    [machine EXCEPT !.products[product.id] = product]

\* machine.add_product(Product::new("D1", "Water", 75, 0)) by the caller
AddProduct ==
    VmSetter(add_product(vm, Product_new("D1", "Water", 75, 0)))

\* Coins alone: insert_coin, cancel_transaction and the public set_state.
\* vmCoins is the sum of the coins accepted since the machine was last Idle:
\* the count starts anew with a call made in Idle.
VmCoinCall(op, amount, r) ==
    /\ vm' = r.m
    /\ vmHist' = <<VmRecord(op, amount, "", r)
                     @@ [again |-> Len(vmHist) = 1 /\ vmHist[1].op = op,
                         prior |-> IF Len(vmHist) = 1 /\ vmHist[1].op = op
                                   THEN vmHist[1].pre ELSE vm]>>
    /\ vmCoins' = (IF vm.current_state = "Idle" THEN 0 ELSE vmCoins)
                      + (IF op = "insert_coin" /\ r.res.ok THEN amount ELSE 0)
    /\ UNCHANGED <<vmSold, vmWide, tl, tlHist, tlRun, tlSince,
                   gc, gcLast, gcFrames>>

CoinInsert ==
    \E amount \in Coins :
        /\ vm.inserted_amount + amount <= MaxCoins
        /\ vmCoins + amount <= MaxCoins
        /\ VmCoinCall("insert_coin", amount,
                      VendingMachine_insert_coin(vm, amount))

CoinCancel ==
    VmCoinCall("cancel_transaction", 0, VendingMachine_cancel_transaction(vm))

CoinSetState ==
    \E state \in VendingStates : VmSetter(VendingMachine_set_state(vm, state))

\* inserted_amount at its full width.  A u32 is kept as its two 16-bit
\* halves <<high, low>>; the machine is reduced to the fields insert_coin and
\* cancel_transaction read and write.
Half == 65536

VendingMachine_new_u32 ==
    [ current_state |-> "Idle", inserted_amount |-> <<0, 0>> ]

\* a + b in u32: the wrapped sum, and whether the sum left the u32 range
U32_add(a, b) ==
    LET low  == a[2] + b[2]
        high == a[1] + b[1] + (low \div Half)
    IN [ value |-> <<high % Half, low % Half>>, overflow |-> high >= Half ]

\* self.inserted_amount += amount.  With overflow checks (debug build) an
\* overflowing sum panics before the store; without them (release build) the
\* wrapped sum is stored.
add_inserted_amount_u32(machine, amount, checks) ==
    LET sum == U32_add(machine.inserted_amount, amount)
    IN IF sum.overflow /\ checks
       THEN [ m |-> machine, panicked |-> TRUE ]
       ELSE [ m |-> [machine EXCEPT !.inserted_amount = sum.value],
              panicked |-> FALSE ]

\* insert_coin of the state object `state`
State_insert_coin_u32(state, machine, amount, checks) ==
    IF state = "Dispensing"
    THEN [ m |-> machine, panicked |-> FALSE, ok |-> FALSE ]
    ELSE IF amount = <<0, 0>>
    THEN [ m |-> machine, panicked |-> FALSE, ok |-> FALSE ]
    ELSE LET a == add_inserted_amount_u32(machine, amount, checks)
         IN [ m |-> IF state = "Idle" /\ ~a.panicked
                    THEN [a.m EXCEPT !.current_state = "HasMoney"]
                    ELSE a.m,
              panicked |-> a.panicked, ok |-> ~a.panicked ]

\* VendingMachine::insert_coin: a panic unwinds past the assignment that
\* puts the taken state back, and leaves the placeholder IdleState
VendingMachine_insert_coin_u32(self, amount, checks) ==
    LET state == self.current_state
        taken == [self EXCEPT !.current_state = "Idle"]
        r == State_insert_coin_u32(state, taken, amount, checks)
    IN [ m |-> IF r.panicked THEN r.m
               ELSE [r.m EXCEPT !.current_state = state],
         panicked |-> r.panicked, ok |-> r.ok ]

\* VendingMachine::cancel_transaction: HasMoney clears the amount, Idle and
\* Dispensing leave it; the taken state is put back
VendingMachine_cancel_transaction_u32(self) ==
    IF self.current_state = "HasMoney"
    THEN [self EXCEPT !.inserted_amount = <<0, 0>>]
    ELSE self

\* the amounts a caller passes: 0, 1, 25, 2^31 and u32::MAX
WideCoins == {<<0, 0>>, <<0, 1>>, <<0, 25>>, <<32768, 0>>, <<65535, 65535>>}

\* the sum of the accepted amounts as a natural number <<top, high, low>>
Nat_add(sum, amount) ==
    LET low  == sum[3] + amount[2]
        high == sum[2] + amount[1] + (low \div Half)
    IN <<sum[1] + (high \div Half), high % Half, low % Half>>

WideFresh ==
    [ machine  |-> VendingMachine_new_u32,
      accepted |-> <<0, 0, 0>>,
      calls    |-> 0,
      checks   |-> "either",
      panicked |-> FALSE ]

\* insert_coin(amount).  Whether overflow is checked is a property of the
\* build: it is settled by the first sum that overflows.
WideInsertCoin ==
    \E amount \in WideCoins, checks \in BOOLEAN :
        LET r == VendingMachine_insert_coin_u32(vmWide.machine, amount, checks)
            overflow == U32_add(vmWide.machine.inserted_amount, amount).overflow
            counted == vmWide.machine.current_state # "Dispensing"
                       /\ amount # <<0, 0>>
        IN /\ ~vmWide.panicked
           /\ vmWide.calls < MaxWideCalls
           /\ IF counted /\ overflow
              THEN vmWide.checks \in {"either", IF checks THEN "on" ELSE "off"}
              ELSE checks
           /\ vmWide' = [ machine  |-> r.m,
                          accepted |-> IF counted
                                       THEN Nat_add(vmWide.accepted, amount)
                                       ELSE vmWide.accepted,
                          calls    |-> vmWide.calls + 1,
                          checks   |-> IF counted /\ overflow
                                       THEN (IF checks THEN "on" ELSE "off")
                                       ELSE vmWide.checks,
                          panicked |-> r.panicked ]
           /\ UNCHANGED <<vm, vmHist, vmSold, vmCoins, tl, tlHist, tlRun, tlSince,
                          gc, gcLast, gcFrames>>

WideCancelTransaction ==
    LET m == VendingMachine_cancel_transaction_u32(vmWide.machine)
    IN /\ ~vmWide.panicked
       /\ m # vmWide.machine
       /\ vmWide' = [vmWide EXCEPT !.machine = m, !.accepted = <<0, 0, 0>>]
       /\ UNCHANGED <<vm, vmHist, vmSold, vmCoins, tl, tlHist, tlRun, tlSince,
                      gc, gcLast, gcFrames>>

\* machine.set_state(Box::new(...)) by the caller
WideSetState ==
    \E state \in VendingStates :
        /\ ~vmWide.panicked
        /\ state # vmWide.machine.current_state
        /\ vmWide' = [vmWide EXCEPT !.machine.current_state = state]
        /\ UNCHANGED <<vm, vmHist, vmSold, vmCoins, tl, tlHist, tlRun, tlSince,
                       gc, gcLast, gcFrames>>

---------------------------------------------------------------------------
(* Traffic light *)

TrafficLight_new ==
    [ current_state           |-> "Red",
      elapsed_time            |-> 0,
      is_pedestrian_requested |-> FALSE,
      emergency_mode          |-> FALSE ]

\* get_color of a state object: the state objects are named by their colour
get_color(state) == state

get_duration(state) ==
    CASE state = "Red"    -> 30
      [] state = "Yellow" -> 5
      [] state = "Green"  -> 45

TrafficLight_set_state(light, state) ==
    [light EXCEPT !.current_state = state, !.elapsed_time = 0]

clear_pedestrian_request(light) ==
    [light EXCEPT !.is_pedestrian_requested = FALSE]

RedLightState_next(light) ==
    [ m   |-> TrafficLight_set_state(light, "Green"),
      res |-> Ok("Traffic light changed from RED to GREEN", <<>>) ]

YellowLightState_next(light) ==
    [ m   |-> TrafficLight_set_state(light, "Red"),
      res |-> Ok("Traffic light changed from YELLOW to RED", <<>>) ]

\* a GreenLightState::next that extends Green whenever a request is pending
GreenLightState_next_Extend(light) ==
    IF light.is_pedestrian_requested
    THEN [ m   |-> clear_pedestrian_request(light),
           res |-> Ok("Pedestrian crossing requested - extending GREEN light", <<>>) ]
    ELSE [ m   |-> TrafficLight_set_state(light, "Yellow"),
           res |-> Ok("Traffic light changed from GREEN to YELLOW", <<>>) ]

GreenLightState_next(light) ==
    IF light.is_pedestrian_requested /\ light.elapsed_time < 45
    THEN [ m   |-> clear_pedestrian_request(light),
           res |-> Ok("Pedestrian crossing requested - extending GREEN light", <<>>) ]
    ELSE [ m   |-> TrafficLight_set_state(light, "Yellow"),
           res |-> Ok("Traffic light changed from GREEN to YELLOW", <<>>) ]

State_next(state, light) ==
    CASE state = "Red"    -> RedLightState_next(light)
      [] state = "Yellow" -> YellowLightState_next(light)
      [] state = "Green"  -> GreenLightState_next(light)

\* a tick that installs the next colour of the cycle under emergency
EmergencyState_Green == "Green"

\* the state tick installs when emergency_mode is set
EmergencyState == "Red"

TrafficLight_tick(self) ==
    LET l1 == [self EXCEPT !.elapsed_time = @ + 1]
    IN IF l1.emergency_mode
       THEN [ m   |-> TrafficLight_set_state(l1, EmergencyState),
              res |-> Ok("Emergency mode: Traffic light set to RED", <<>>),
              installed |-> EmergencyState, dispatched |-> FALSE ]
       ELSE IF l1.elapsed_time >= get_duration(l1.current_state)
       THEN \* mem::replace(&mut self.current_state, Box::new(RedLightState))
            LET state == l1.current_state
                taken == [l1 EXCEPT !.current_state = "Red"]
                r == State_next(state, taken)
            IN [ m   |-> [r.m EXCEPT !.current_state = state],
                 res |-> r.res,
                 installed |-> r.m.current_state, dispatched |-> TRUE ]
       ELSE [ m   |-> l1,
              res |-> Ok("Current",
                         <<get_color(l1.current_state),
                           get_duration(l1.current_state) - l1.elapsed_time>>),
              installed |-> l1.current_state, dispatched |-> FALSE ]

request_pedestrian_crossing(self) ==
    [self EXCEPT !.is_pedestrian_requested = TRUE]

\* a set_emergency_mode that sets the flag and leaves the state alone
set_emergency_mode_FlagOnly(self, enabled) ==
    [self EXCEPT !.emergency_mode = enabled]

set_emergency_mode(self, enabled) ==
    LET l1 == [self EXCEPT !.emergency_mode = enabled]
    IN IF enabled THEN TrafficLight_set_state(l1, "Red") ELSE l1

get_current_color(self) == get_color(self.current_state)

\* tlSince follows a recovery from emergency: -2 once emergency mode is set,
\* -3 once it has been held through a tick, then the number of ticks made
\* since set_emergency_mode(false) while nothing but tick has been called;
\* -1 otherwise
Since(op, enabled) ==
    CASE op = "set_emergency_mode" /\ enabled -> -2
      [] op = "set_emergency_mode" /\ ~enabled ->
             IF tlSince = -3 THEN 0 ELSE -1
      [] op = "tick" ->
             IF tlSince \in {-2, -3} THEN -3
             ELSE IF tlSince >= 0 /\ tlSince < MaxTicks THEN tlSince + 1
             ELSE tlSince
      [] OTHER -> IF tlSince >= 0 THEN -1 ELSE tlSince

\* one call of a public method; tlRun counts the ticks since construction
\* while nothing but tick has been called, and is -1 afterwards
TlCall(op, enabled, m, res, installed, dispatched) ==
    /\ tl' = m
    /\ tlHist' = Push(tlHist, [op |-> op, enabled |-> enabled, res |-> res,
                               installed |-> installed,
                               dispatched |-> dispatched,
                               pre |-> tl, post |-> m])
    /\ tlRun' = IF op = "tick" /\ tlRun >= 0
                THEN (IF tlRun < MaxTicks THEN tlRun + 1 ELSE tlRun)
                ELSE -1
    /\ tlSince' = Since(op, enabled)
    /\ UNCHANGED <<vm, vmHist, vmSold, vmCoins, vmWide, gc, gcLast, gcFrames>>

Tick ==
    LET r == TrafficLight_tick(tl)
    IN TlCall("tick", FALSE, r.m, r.res, r.installed, r.dispatched)

RequestPedestrianCrossing ==
    TlCall("request_pedestrian_crossing", FALSE,
           request_pedestrian_crossing(tl), Ok("", <<>>), tl.current_state, FALSE)

ClearPedestrianRequest ==
    TlCall("clear_pedestrian_request", FALSE,
           clear_pedestrian_request(tl), Ok("", <<>>), tl.current_state, FALSE)

SetEmergencyMode ==
    \E enabled \in BOOLEAN :
        TlCall("set_emergency_mode", enabled,
               set_emergency_mode(tl, enabled), Ok("", <<>>),
               tl.current_state, FALSE)

\* The same calls on a light the caller also sets up through the public
\* set_state.  The history holds the last call alone and is emptied by
\* set_state.
TlCallLast(op, enabled, m, res, installed, dispatched) ==
    /\ tl' = m
    /\ tlHist' = <<[op |-> op, enabled |-> enabled, res |-> res,
                    installed |-> installed, dispatched |-> dispatched,
                    pre |-> tl, post |-> m]>>
    /\ tlRun' = IF op = "tick" /\ tlRun >= 0
                THEN (IF tlRun < MaxTicks THEN tlRun + 1 ELSE tlRun)
                ELSE -1
    /\ tlSince' = Since(op, enabled)
    /\ UNCHANGED <<vm, vmHist, vmSold, vmCoins, vmWide, gc, gcLast, gcFrames>>

ApiTick ==
    LET r == TrafficLight_tick(tl)
    IN TlCallLast("tick", FALSE, r.m, r.res, r.installed, r.dispatched)

ApiRequestPedestrianCrossing ==
    TlCallLast("request_pedestrian_crossing", FALSE,
               request_pedestrian_crossing(tl), Ok("", <<>>),
               tl.current_state, FALSE)

ApiClearPedestrianRequest ==
    TlCallLast("clear_pedestrian_request", FALSE,
               clear_pedestrian_request(tl), Ok("", <<>>),
               tl.current_state, FALSE)

ApiSetEmergencyMode ==
    \E enabled \in BOOLEAN :
        TlCallLast("set_emergency_mode", enabled,
                   set_emergency_mode(tl, enabled), Ok("", <<>>),
                   tl.current_state, FALSE)

LightStates == {"Red", "Yellow", "Green"}

\* light.set_state(Box::new(...)) by the caller
LightSetState ==
    \E state \in LightStates :
        /\ TrafficLight_set_state(tl, state) # tl
        /\ tl' = TrafficLight_set_state(tl, state)
        /\ tlHist' = <<>>
        /\ tlRun' = -1
        /\ tlSince' = -1
        /\ UNCHANGED <<vm, vmHist, vmSold, vmCoins, vmWide, gc, gcLast, gcFrames>>

---------------------------------------------------------------------------
(* Game character *)

\* f32 arithmetic in fixed point
Abs(x) == IF x < 0 THEN -x ELSE x
Min(a, b) == IF a <= b THEN a ELSE b
\* v * 0.8, rounded towards zero
Mul08(v) == IF v >= 0 THEN (v * 8) \div 10 ELSE -(((-v) * 8) \div 10)

\* the state objects
IdleCharacterState == [name |-> "Idle", attack_timer |-> 0]
WalkingCharacterState == [name |-> "Walking", attack_timer |-> 0]
JumpingCharacterState == [name |-> "Jumping", attack_timer |-> 0]
AttackingCharacterState_new == [name |-> "Attacking", attack_timer |-> 0]

GameCharacter_new ==
    [ current_state |-> IdleCharacterState,
      position_1    |-> 0,
      velocity_0    |-> 0,
      velocity_1    |-> 0,
      health        |-> 100,
      energy        |-> 100,
      is_grounded   |-> TRUE,
      facing_right  |-> TRUE ]

GameCharacter_set_state(character, state) ==
    [character EXCEPT !.current_state = state]

\* consume_energy: the character left behind and the bool returned
consume_energy(character, amount) ==
    IF character.energy >= amount
    THEN [m |-> [character EXCEPT !.energy = @ - amount], ok |-> TRUE]
    ELSE [m |-> character, ok |-> FALSE]

set_facing_right(character, facing_right) ==
    [character EXCEPT !.facing_right = facing_right]

set_velocity(character, vx, vy) ==
    [character EXCEPT !.velocity_0 = vx, !.velocity_1 = vy]

set_grounded(character, grounded) ==
    [character EXCEPT !.is_grounded = grounded]

\* a handler's return: the state object, the character, the Result
Ret(self, character, res) == [self |-> self, m |-> character, res |-> res]

\* MoveLeft / MoveRight: facing and horizontal velocity
Move(character, right, speed) ==
    set_velocity(set_facing_right(character, right),
                 IF right THEN speed ELSE -speed, character.velocity_1)

\* the Jump arm shared by Idle and Walking
JumpArm(self, character, okmsg, errmsg) ==
    IF ~character.is_grounded
    THEN Ret(self, character, Err(errmsg, <<>>))
    ELSE LET c == consume_energy(character, 20)
         IN IF c.ok
            THEN LET m1 == GameCharacter_set_state(c.m, JumpingCharacterState)
                     m2 == set_velocity(m1, m1.velocity_0, 800)
                     m3 == set_grounded(m2, FALSE)
                 IN Ret(self, m3, Ok(okmsg, <<>>))
            ELSE Ret(self, c.m, Err(errmsg, <<>>))

\* the Attack arm shared by Idle, Walking and Jumping
AttackArm(self, character, cost, okmsg, errmsg) ==
    LET c == consume_energy(character, cost)
    IN IF c.ok
       THEN Ret(self, GameCharacter_set_state(c.m, AttackingCharacterState_new),
                Ok(okmsg, <<>>))
       ELSE Ret(self, c.m, Err(errmsg, <<>>))

IdleCharacterState_update(self, character, delta_time) ==
    Ret(self,
        set_velocity(character, Mul08(character.velocity_0), character.velocity_1),
        Ok("Character is idle", <<>>))

IdleCharacterState_handle_input(self, character, input) ==
    CASE input = "MoveLeft" ->
           Ret(self,
               Move(GameCharacter_set_state(character, WalkingCharacterState),
                    FALSE, 500),
               Ok("Started walking left", <<>>))
      [] input = "MoveRight" ->
           Ret(self,
               Move(GameCharacter_set_state(character, WalkingCharacterState),
                    TRUE, 500),
               Ok("Started walking right", <<>>))
      [] input = "Jump" ->
           JumpArm(self, character, "Started jumping",
                   "Cannot jump (not grounded or insufficient energy)")
      [] input = "Attack" ->
           AttackArm(self, character, 15, "Started attacking",
                     "Insufficient energy to attack")
      [] OTHER -> Ret(self, character, Ok("No action taken", <<>>))

WalkingCharacterState_update(self, character, delta_time) ==
    IF Abs(character.velocity_0) < 10
    THEN Ret(self, GameCharacter_set_state(character, IdleCharacterState),
             Ok("Stopped walking, now idle", <<>>))
    ELSE Ret(self, character, Ok("Character is walking", <<>>))

WalkingCharacterState_handle_input(self, character, input) ==
    CASE input = "MoveLeft" ->
           Ret(self, Move(character, FALSE, 500), Ok("Walking left", <<>>))
      [] input = "MoveRight" ->
           Ret(self, Move(character, TRUE, 500), Ok("Walking right", <<>>))
      [] input = "Jump" ->
           JumpArm(self, character, "Jumped while walking", "Cannot jump")
      [] input = "Idle" ->
           Ret(self, GameCharacter_set_state(character, IdleCharacterState),
               Ok("Stopped walking", <<>>))
      [] input = "Attack" ->
           AttackArm(self, character, 15, "Attacked while walking",
                     "Insufficient energy to attack")
      [] OTHER -> Ret(self, character, Ok("Continuing to walk", <<>>))

\* where a landing or a finished attack goes
GroundState(character) ==
    IF Abs(character.velocity_0) > 10
    THEN WalkingCharacterState
    ELSE IdleCharacterState

JumpingCharacterState_update(self, character, delta_time) ==
    IF character.is_grounded
    THEN Ret(self, GameCharacter_set_state(character, GroundState(character)),
             Ok(IF Abs(character.velocity_0) > 10
                THEN "Landed and walking" ELSE "Landed and idle", <<>>))
    ELSE Ret(self, character, Ok("Character is in the air", <<>>))

JumpingCharacterState_handle_input(self, character, input) ==
    CASE input = "MoveLeft" ->
           Ret(self, Move(character, FALSE, 300),
               Ok("Air control: moving left", <<>>))
      [] input = "MoveRight" ->
           Ret(self, Move(character, TRUE, 300),
               Ok("Air control: moving right", <<>>))
      [] input = "Attack" ->
           AttackArm(self, character, 25, "Air attack!",
                     "Insufficient energy for air attack")
      [] OTHER -> Ret(self, character, Ok("Character continues jumping", <<>>))

AttackingCharacterState_update(self, character, delta_time) ==
    LET self1 == [self EXCEPT !.attack_timer = @ + delta_time]
    IN IF self1.attack_timer >= 5
       THEN Ret(self1, GameCharacter_set_state(character, GroundState(character)),
                Ok(IF Abs(character.velocity_0) > 10
                   THEN "Attack finished, now walking"
                   ELSE "Attack finished, now idle", <<>>))
       ELSE Ret(self1, character, Ok("Character is attacking", <<>>))

\* an Attacking handler that lets the character jump
AttackingCharacterState_handle_input_Jump(self, character, input) ==
    IF input = "Jump"
    THEN JumpArm(self, character, "Jumped while attacking", "Cannot jump")
    ELSE Ret(self, character, Ok("Cannot act while attacking", <<>>))

AttackingCharacterState_handle_input(self, character, input) ==
    IF input = "Attack"
    THEN Ret(self, character, Ok("Already attacking", <<>>))
    ELSE Ret(self, character, Ok("Cannot act while attacking", <<>>))

\* can_transition_to of the state object named `name`
can_transition_to(name, new_state) ==
    CASE name = "Idle"      -> new_state \in {"Walking", "Jumping", "Attacking"}
      [] name = "Walking"   -> new_state \in {"Idle", "Jumping", "Attacking"}
      [] name = "Jumping"   -> new_state \in {"Idle", "Walking", "Attacking"}
      [] name = "Attacking" -> new_state \in {"Idle", "Walking"}

CharacterState_update(self, character, delta_time) ==
    CASE self.name = "Idle" ->
           IdleCharacterState_update(self, character, delta_time)
      [] self.name = "Walking" ->
           WalkingCharacterState_update(self, character, delta_time)
      [] self.name = "Jumping" ->
           JumpingCharacterState_update(self, character, delta_time)
      [] self.name = "Attacking" ->
           AttackingCharacterState_update(self, character, delta_time)

CharacterState_handle_input(self, character, input) ==
    CASE self.name = "Idle" ->
           IdleCharacterState_handle_input(self, character, input)
      [] self.name = "Walking" ->
           WalkingCharacterState_handle_input(self, character, input)
      [] self.name = "Jumping" ->
           JumpingCharacterState_handle_input(self, character, input)
      [] self.name = "Attacking" ->
           AttackingCharacterState_handle_input(self, character, input)

\* let mut state = mem::replace(&mut self.current_state, Box::new(IdleCharacterState))
GameCharacter_take(self) == [self EXCEPT !.current_state = IdleCharacterState]

\* self.current_state = state; result
\* `installed` records the state the handler left in self.current_state
GameCharacter_put_back(r) ==
    [ m         |-> [r.m EXCEPT !.current_state = r.self],
      res       |-> r.res,
      installed |-> r.m.current_state.name ]

\* a recovery without the cap
energy_recovery_Uncapped(self) == [self EXCEPT !.energy = @ + 1]

\* if self.energy < 100 { self.energy = (self.energy + 1).min(100) }
energy_recovery(self) ==
    IF self.energy < 100
    THEN [self EXCEPT !.energy = Min(@ + 1, 100)]
    ELSE self

\* the physics and energy part of update, before the state's update runs
GameCharacter_physics(self, delta_time) ==
    LET c1 == [self EXCEPT !.position_1 = @ + self.velocity_1 * delta_time]
        c2 == IF ~c1.is_grounded
              THEN [c1 EXCEPT !.velocity_1 = @ - 98 * delta_time]
              ELSE c1
        c3 == IF c2.position_1 <= 0
              THEN [c2 EXCEPT !.position_1 = 0, !.velocity_1 = 0,
                              !.is_grounded = TRUE]
              ELSE c2
    IN energy_recovery(c3)

GameCharacter_update(self, delta_time) ==
    LET c == GameCharacter_physics(self, delta_time)
        state == c.current_state
    IN GameCharacter_put_back(
           CharacterState_update(state, GameCharacter_take(c), delta_time))

GameCharacter_handle_input(self, input) ==
    LET state == self.current_state
    IN GameCharacter_put_back(
           CharacterState_handle_input(state, GameCharacter_take(self), input))

GameCharacter_get_state_name(self) == self.current_state.name

\* inputs of the exploration: 0.2 s and 0.6 s frames, every GameInput
DeltaTimes == {2, 6}
GameInputs == {"MoveLeft", "MoveRight", "Jump", "Attack", "Block", "Idle"}

GcCall(op, input, delta_time, r) ==
    /\ gc' = r.m
    /\ gcLast' = [op |-> op, input |-> input, delta_time |-> delta_time,
                  res |-> r.res, installed |-> r.installed,
                  pre |-> gc, post |-> r.m]
    /\ UNCHANGED <<vm, vmHist, vmSold, vmCoins, vmWide,
                   tl, tlHist, tlRun, tlSince, gcFrames>>

Update ==
    \E delta_time \in DeltaTimes :
        GcCall("update", "", delta_time, GameCharacter_update(gc, delta_time))

HandleInput ==
    \E input \in GameInputs :
        GcCall("handle_input", input, 0, GameCharacter_handle_input(gc, input))

\* The same calls on a character the caller also puts into a state with the
\* public set_state; gcFrames counts the frames run.
GcCallApi(op, input, delta_time, r) ==
    /\ gc' = r.m
    /\ gcLast' = [op |-> op, input |-> input, delta_time |-> delta_time,
                  res |-> r.res, installed |-> r.installed,
                  pre |-> gc, post |-> r.m]
    /\ gcFrames' = IF op = "update" THEN gcFrames + 1 ELSE gcFrames
    /\ UNCHANGED <<vm, vmHist, vmSold, vmCoins, vmWide,
                   tl, tlHist, tlRun, tlSince>>

ApiUpdate ==
    /\ gcFrames < MaxFrames
    /\ \E delta_time \in DeltaTimes :
           GcCallApi("update", "", delta_time,
                     GameCharacter_update(gc, delta_time))

ApiHandleInput ==
    \E input \in GameInputs :
        GcCallApi("handle_input", input, 0,
                  GameCharacter_handle_input(gc, input))

\* the state objects a caller can build: the unit structs and
\* AttackingCharacterState::default()
CharacterStates ==
    { IdleCharacterState, WalkingCharacterState, JumpingCharacterState,
      AttackingCharacterState_new }

\* character.set_state(Box::new(...)) by the caller
CharacterSetState ==
    \E state \in CharacterStates :
        /\ GameCharacter_set_state(gc, state) # gc
        /\ GcCallApi("set_state", "", 0,
                     [m |-> GameCharacter_set_state(gc, state),
                      res |-> Ok("", <<>>), installed |-> state.name])

---------------------------------------------------------------------------
(* Specifications: one per machine, each from the constructed machines *)

Init ==
    /\ vm = VendingMachine_new
    /\ vmHist = <<>>
    /\ vmSold = 0
    /\ vmCoins = 0
    /\ vmWide = WideFresh
    /\ tl = TrafficLight_new
    /\ tlHist = <<>>
    /\ tlRun = 0
    /\ tlSince = -1
    /\ gc = GameCharacter_new
    /\ gcLast = [op |-> "new", input |-> "", delta_time |-> 0,
                 res |-> Ok("", <<>>), installed |-> "Idle",
                 pre |-> GameCharacter_new, post |-> GameCharacter_new]
    /\ gcFrames = 0

NextVending == InsertCoin \/ SelectProduct \/ Dispense \/ CancelTransaction

NextTraffic ==
    \/ Tick
    \/ RequestPedestrianCrossing
    \/ ClearPedestrianRequest
    \/ SetEmergencyMode

NextCharacter == Update \/ HandleInput

SpecVending == Init /\ [][NextVending]_vars
SpecTraffic == Init /\ [][NextTraffic]_vars
SpecCharacter == Init /\ [][NextCharacter]_vars

NextVendingApi ==
    \/ ApiInsertCoin
    \/ ApiSelectProduct
    \/ ApiDispense
    \/ ApiCancelTransaction
    \/ SetState
    \/ DrainChange
    \/ AddProduct

SpecVendingApi == Init /\ [][NextVendingApi]_vars

NextTrafficApi ==
    \/ ApiTick
    \/ ApiRequestPedestrianCrossing
    \/ ApiClearPedestrianRequest
    \/ ApiSetEmergencyMode
    \/ LightSetState

SpecTrafficApi == Init /\ [][NextTrafficApi]_vars

NextCharacterApi == ApiUpdate \/ ApiHandleInput \/ CharacterSetState

SpecCharacterApi == Init /\ [][NextCharacterApi]_vars

NextVendingCoins == CoinInsert \/ CoinCancel \/ CoinSetState

SpecVendingCoins == Init /\ [][NextVendingCoins]_vars

NextVendingWide == WideInsertCoin \/ WideCancelTransaction \/ WideSetState

SpecVendingWide == Init /\ [][NextVendingWide]_vars

\* tick() is called again and again: the caller's loop never stops
SpecTrafficLive == Init /\ [][NextTraffic]_vars /\ WF_vars(Tick)

\* The machines share nothing: a behaviour drives one of them.
VendingFresh == vm = VendingMachine_new /\ vmHist = <<>>
TrafficFresh == tlRun = 0 /\ tlHist = <<>>
CharacterFresh == gcLast.op = "new"

NextMachines ==
    \/ TrafficFresh /\ CharacterFresh /\ NextVendingApi
    \/ VendingFresh /\ CharacterFresh /\ NextTraffic
    \/ VendingFresh /\ TrafficFresh /\ NextCharacter

SpecMachines == Init /\ [][NextMachines]_vars

---------------------------------------------------------------------------
(* Properties *)

\* the state a call must report when the handler's choice is committed:
\* `installed` is what the handler left in current_state, `placeholder` what
\* mem::replace had put there; a handler that left the placeholder either
\* chose that state or chose nothing
Committed(rec, placeholder, pre_name, post_name) ==
    IF rec.installed # placeholder
    THEN post_name = rec.installed
    ELSE post_name \in {placeholder, pre_name}

\* C1: transition commit.  After every dispatch call (insert_coin,
\* select_product, dispense, cancel_transaction; tick; update, handle_input)
\* the state the machine reports is the state the handler selected during
\* the call.
C1_TransitionCommit ==
    /\ \A i \in 1..Len(vmHist) :
           Committed(vmHist[i], "Idle", vmHist[i].pre.current_state,
                     vmHist[i].post.current_state)
    /\ \A i \in 1..Len(tlHist) :
           (tlHist[i].op = "tick" /\ tlHist[i].dispatched) =>
               Committed(tlHist[i], "Red", tlHist[i].pre.current_state,
                         tlHist[i].post.current_state)
    /\ gcLast.op \in {"update", "handle_input"} =>
           Committed(gcLast, "Idle", gcLast.pre.current_state.name,
                     gcLast.post.current_state.name)

Price(p) == VendingMachine_new.products[p].price

\* C2: purchase state sequence.  From a new machine, insert_coin(a) with
\* a >= price(p) for an in-stock product p, then select_product(p), then
\* dispense() all return Ok, and the state is HasMoney, Dispensing, Idle
\* after the respective calls.
C2_PurchaseSequence ==
    \A i \in 1..Len(vmHist) : \A p \in ProductIds :
        LET c1 == vmHist[i] IN
        ( /\ c1.pre = VendingMachine_new
          /\ c1.op = "insert_coin"
          /\ c1.amount >= Price(p)
          /\ c1.pre.products[p].stock > 0 ) =>
            /\ c1.res.ok
            /\ c1.post.current_state = "HasMoney"
            /\ ( /\ i + 1 <= Len(vmHist)
                 /\ vmHist[i + 1].op = "select_product"
                 /\ vmHist[i + 1].product_id = p ) =>
                   /\ vmHist[i + 1].res.ok
                   /\ vmHist[i + 1].post.current_state = "Dispensing"
                   /\ ( /\ i + 2 <= Len(vmHist)
                        /\ vmHist[i + 2].op = "dispense" ) =>
                          /\ vmHist[i + 2].res.ok
                          /\ vmHist[i + 2].post.current_state = "Idle"

\* the calls i..j of the window are accepted coins
CoinRun(i, j) ==
    \A k \in i..j : vmHist[k].op = "insert_coin" /\ vmHist[k].amount > 0

RECURSIVE CoinSum(_, _)
CoinSum(i, j) == IF i > j THEN 0 ELSE vmHist[i].amount + CoinSum(i + 1, j)

\* C3: vending round trip.  From Idle with nothing inserted and nothing
\* selected, coins totalling exactly the price of an in-stock product p,
\* then select_product(p), then dispense: the stock of p is one less, every
\* other stock and the change reserve are as before, and the machine is Idle
\* with inserted_amount 0 and no selected product.
C3_RoundTrip ==
    \A i \in 1..Len(vmHist) : \A j \in (i + 1)..(Len(vmHist) - 1) :
      \A p \in ProductIds :
        LET start == vmHist[i].pre
            final == vmHist[j + 1].post
        IN ( /\ start.current_state = "Idle"
             /\ start.inserted_amount = 0
             /\ start.selected_product = None
             /\ start.products[p].stock > 0
             /\ CoinRun(i, j - 1)
             /\ CoinSum(i, j - 1) = start.products[p].price
             /\ vmHist[j].op = "select_product"
             /\ vmHist[j].product_id = p
             /\ vmHist[j + 1].op = "dispense" ) =>
               /\ final.products[p].stock = start.products[p].stock - 1
               /\ \A q \in ProductIds \ {p} :
                      final.products[q].stock = start.products[q].stock
               /\ final.change_dispenser = start.change_dispenser
               /\ final.current_state = "Idle"
               /\ final.inserted_amount = 0
               /\ final.selected_product = None

\* C4: insufficient funds.  On a new machine, insert_coin(a) with
\* 0 < a < price(p) for an in-stock product p, then select_product(p):
\* select_product returns Err "Insufficient funds" naming the shortfall
\* price(p) - a, the state is HasMoney, and the stock of p and
\* inserted_amount are as before the call.
C4_InsufficientFunds ==
    \A i \in 1..(Len(vmHist) - 1) : \A p \in ProductIds :
        LET c1 == vmHist[i]
            c2 == vmHist[i + 1]
        IN ( /\ c1.pre = VendingMachine_new
             /\ c1.op = "insert_coin"
             /\ 0 < c1.amount
             /\ c1.amount < Price(p)
             /\ c1.pre.products[p].stock > 0
             /\ c2.op = "select_product"
             /\ c2.product_id = p ) =>
               /\ ~c2.res.ok
               /\ c2.res.msg = "Insufficient funds. Need more"
               /\ c2.res.args = <<Price(p) - c1.amount>>
               /\ c2.post.current_state = "HasMoney"
               /\ c2.post.products[p].stock = c2.pre.products[p].stock
               /\ c2.post.inserted_amount = c2.pre.inserted_amount

\* C5: traffic light first change.  After 31 consecutive tick() calls on a
\* new light (no other call in between) the colour is Green.
C5_FirstChange ==
    tlRun = 31 => get_current_color(tl) = "Green"

LastInput(input) == gcLast.op = "handle_input" /\ gcLast.input = input

\* the character fields a rejected input must leave alone
SameNameAndEnergy ==
    /\ gcLast.post.current_state.name = gcLast.pre.current_state.name
    /\ gcLast.post.energy = gcLast.pre.energy

\* C7: energy gating of Jump.  For a grounded character in Idle or Walking,
\* handle_input(Jump) with energy < 20 returns Err and leaves state name and
\* energy unchanged; with energy >= 20 (as after regeneration by update) it
\* returns Ok and the state becomes Jumping.
C7_EnergyGating ==
    ( /\ LastInput("Jump")
      /\ gcLast.pre.is_grounded
      /\ gcLast.pre.current_state.name \in {"Idle", "Walking"} ) =>
        IF gcLast.pre.energy < 20
        THEN ~gcLast.res.ok /\ SameNameAndEnergy
        ELSE gcLast.res.ok /\ gcLast.post.current_state.name = "Jumping"

AttackCost(name) == IF name = "Jumping" THEN 25 ELSE 15

\* C8: attack guard.  handle_input(Attack) in a non-attacking state returns
\* Ok exactly when energy >= cost (15 in Idle and Walking, 25 in Jumping);
\* on Ok energy drops by cost and the state becomes Attacking; on Err energy
\* and state are unchanged.
C8_AttackGuard ==
    ( /\ LastInput("Attack")
      /\ gcLast.pre.current_state.name # "Attacking" ) =>
        LET cost == AttackCost(gcLast.pre.current_state.name)
        IN /\ gcLast.res.ok <=> gcLast.pre.energy >= cost
           /\ gcLast.res.ok =>
                 /\ gcLast.post.energy = gcLast.pre.energy - cost
                 /\ gcLast.post.current_state.name = "Attacking"
           /\ ~gcLast.res.ok => SameNameAndEnergy

\* C9: Idle to Walking.  From Idle, handle_input(MoveLeft / MoveRight)
\* returns Ok, makes the state Walking, sets facing_right to false / true
\* and horizontal velocity to -5 / +5, and leaves energy, health and
\* vertical velocity unchanged.
C9_IdleToWalking ==
    \A right \in BOOLEAN :
        ( /\ LastInput(IF right THEN "MoveRight" ELSE "MoveLeft")
          /\ gcLast.pre.current_state.name = "Idle" ) =>
            /\ gcLast.res.ok
            /\ gcLast.post.current_state.name = "Walking"
            /\ gcLast.post.facing_right = right
            /\ gcLast.post.velocity_0 = (IF right THEN 500 ELSE -500)
            /\ gcLast.post.energy = gcLast.pre.energy
            /\ gcLast.post.health = gcLast.pre.health
            /\ gcLast.post.velocity_1 = gcLast.pre.velocity_1

\* C10: Jump is atomic with its energy cost.  handle_input(Jump) in Idle or
\* Walking with grounded and energy >= 20 returns Ok, takes exactly 20
\* energy, clears grounded and makes the state Jumping; and a Jump input
\* lowers energy if and only if the state reported afterwards is Jumping.
C10_JumpAtomic ==
    LastInput("Jump") =>
        /\ ( /\ gcLast.pre.current_state.name \in {"Idle", "Walking"}
             /\ gcLast.pre.is_grounded
             /\ gcLast.pre.energy >= 20 ) =>
               /\ gcLast.res.ok
               /\ gcLast.post.energy = gcLast.pre.energy - 20
               /\ ~gcLast.post.is_grounded
               /\ gcLast.post.current_state.name = "Jumping"
        /\ gcLast.post.energy < gcLast.pre.energy
               <=> gcLast.post.current_state.name = "Jumping"

\* what a vending call must leave alone when it is rejected
SameVendingContext(pre, post) ==
    /\ post.inserted_amount = pre.inserted_amount
    /\ \A p \in ProductIds : post.products[p].stock = pre.products[p].stock
    /\ post.change_dispenser = pre.change_dispenser
    /\ post.selected_product = pre.selected_product

\* what a character call must leave alone when it is rejected
SameCharacterContext(pre, post) ==
    /\ post.energy = pre.energy
    /\ post.position_1 = pre.position_1
    /\ post.velocity_0 = pre.velocity_0
    /\ post.velocity_1 = pre.velocity_1
    /\ post.is_grounded = pre.is_grounded

\* C11: no-op on reject.  Every vending-machine or character call that
\* returns Err leaves the context as it was before the call: inserted_amount,
\* every stock, the change reserve and selected_product (a dispense that
\* fails while paying out change included); energy, position, velocity and
\* grounded.
C11_NoOpOnReject ==
    /\ \A i \in 1..Len(vmHist) :
           ~vmHist[i].res.ok => SameVendingContext(vmHist[i].pre, vmHist[i].post)
    /\ (gcLast.op \in {"update", "handle_input"} /\ ~gcLast.res.ok) =>
           SameCharacterContext(gcLast.pre, gcLast.post)

\* C12: rejected events do not advance the machine.  On all three machines
\* a call that returns Err leaves the reported state equal to the state
\* reported before the call, dispense in Dispensing with the selected
\* product out of stock included.
C12_RejectKeepsState ==
    /\ \A i \in 1..Len(vmHist) :
           ~vmHist[i].res.ok =>
               VendingMachine_get_state_name(vmHist[i].post)
                   = VendingMachine_get_state_name(vmHist[i].pre)
    /\ \A i \in 1..Len(tlHist) :
           ~tlHist[i].res.ok =>
               get_current_color(tlHist[i].post) = get_current_color(tlHist[i].pre)
    /\ (gcLast.op \in {"update", "handle_input"} /\ ~gcLast.res.ok) =>
           GameCharacter_get_state_name(gcLast.post)
               = GameCharacter_get_state_name(gcLast.pre)

\* C12 happens: dispense in Dispensing found the selected product out of
\* stock, its handler chose HasMoney, the call returned Err
C12_Witness ==
    /\ Len(vmHist) = 1
    /\ vmHist[1].op = "dispense"
    /\ vmHist[1].pre.current_state = "Dispensing"
    /\ ~vmHist[1].res.ok
    /\ vmHist[1].res.msg = "Product out of stock"
    /\ vmHist[1].installed = "HasMoney"
    /\ vm = vmHist[1].post
    /\ vm.current_state = "Dispensing"

\* C13: state exclusivity.  After any sequence of calls each machine reports
\* one state, a member of its declared set; it is never without a state.
C13_StateExclusivity ==
    /\ VendingMachine_get_state_name(vm) \in {"Idle", "HasMoney", "Dispensing"}
    /\ get_current_color(tl) \in {"Red", "Green", "Yellow"}
    /\ GameCharacter_get_state_name(gc)
           \in {"Idle", "Walking", "Jumping", "Attacking"}

\* C13 happens: a dispatch call whose handler replaced the state has returned
C13_Witness ==
    /\ Len(vmHist) = 1
    /\ vmHist[1].op = "dispense"
    /\ vmHist[1].res.ok
    /\ vmHist[1].pre.current_state = "Dispensing"
    /\ vmHist[1].installed = "Idle"
    /\ vm = vmHist[1].post
    /\ VendingMachine_get_state_name(vm) \in {"Idle", "HasMoney", "Dispensing"}

\* C14: dispense with overpayment.  In Dispensing with selected product p in
\* stock and inserted_amount i >= price(p), dispense() returns Ok, takes one
\* unit of p, lowers the change reserve by exactly i - price(p), sets
\* inserted_amount to 0, clears selected_product and leaves the machine Idle.
C14_DispenseEffect ==
    \A k \in 1..Len(vmHist) : \A p \in ProductIds :
        LET pre == vmHist[k].pre
            post == vmHist[k].post
        IN ( /\ vmHist[k].op = "dispense"
             /\ pre.current_state = "Dispensing"
             /\ pre.selected_product = Some(p)
             /\ pre.products[p].stock > 0
             /\ pre.inserted_amount >= pre.products[p].price ) =>
               /\ vmHist[k].res.ok
               /\ post.products[p].stock = pre.products[p].stock - 1
               /\ post.change_dispenser =
                      pre.change_dispenser
                          - (pre.inserted_amount - pre.products[p].price)
               /\ post.inserted_amount = 0
               /\ post.selected_product = None
               /\ post.current_state = "Idle"

\* C15: select before paying is rejected.  In Idle, select_product(id) for
\* any id returns Err "Please insert coins first"; the state stays Idle and
\* inserted_amount, selected_product and all stocks are unchanged.
C15_SelectInIdle ==
    \A k \in 1..Len(vmHist) :
        ( /\ vmHist[k].op = "select_product"
          /\ vmHist[k].pre.current_state = "Idle" ) =>
            /\ ~vmHist[k].res.ok
            /\ vmHist[k].res.msg = "Please insert coins first"
            /\ vmHist[k].post.current_state = "Idle"
            /\ SameVendingContext(vmHist[k].pre, vmHist[k].post)

\* C15 happens: select_product in Idle of a product in stock that the
\* inserted coins would pay for
C15_Witness ==
    /\ Len(vmHist) >= 1
    /\ LET c == vmHist[Len(vmHist)]
       IN /\ c.op = "select_product"
          /\ c.pre.current_state = "Idle"
          /\ c.product_id \in ProductIds
          /\ c.pre.products[c.product_id].stock > 0
          /\ c.pre.inserted_amount >= c.pre.products[c.product_id].price
          /\ ~c.res.ok
          /\ c.post = vm

\* C16: cancel with money.  In HasMoney with inserted_amount i,
\* cancel_transaction() returns Ok reporting i as the returned amount, sets
\* inserted_amount to 0, leaves stocks and change reserve as they were, and
\* the machine is Idle afterwards.
C16_CancelWithMoney ==
    \A k \in 1..Len(vmHist) :
        LET pre == vmHist[k].pre
            post == vmHist[k].post
        IN ( /\ vmHist[k].op = "cancel_transaction"
             /\ pre.current_state = "HasMoney" ) =>
               /\ vmHist[k].res.ok
               /\ vmHist[k].res.args = <<pre.inserted_amount>>
               /\ post.inserted_amount = 0
               /\ \A p \in ProductIds :
                      post.products[p].stock = pre.products[p].stock
               /\ post.change_dispenser = pre.change_dispenser
               /\ post.current_state = "Idle"

\* C17: Dispensing rejects everything but dispense.  In Dispensing,
\* insert_coin, select_product and cancel_transaction each return Err, the
\* state stays Dispensing, and inserted_amount, selected_product, stocks and
\* change reserve are unchanged.
C17_DispensingRejects ==
    \A k \in 1..Len(vmHist) :
        ( /\ vmHist[k].op \in {"insert_coin", "select_product",
                               "cancel_transaction"}
          /\ vmHist[k].pre.current_state = "Dispensing" ) =>
            /\ ~vmHist[k].res.ok
            /\ vmHist[k].post.current_state = "Dispensing"
            /\ SameVendingContext(vmHist[k].pre, vmHist[k].post)

\* C17 happens: a cancellation was refused in Dispensing with coins in the
\* machine and a product selected
C17_Witness ==
    /\ Len(vmHist) = 1
    /\ vmHist[1].op = "cancel_transaction"
    /\ vmHist[1].pre.current_state = "Dispensing"
    /\ vmHist[1].pre.inserted_amount > 0
    /\ vmHist[1].pre.selected_product # None
    /\ ~vmHist[1].res.ok
    /\ vm = vmHist[1].post

\* C18: cancellation is idempotent.  cancel_transaction() in Idle returns Ok
\* and changes nothing; from HasMoney, a second cancel_transaction() right
\* after the first leaves the machine in the state and context the first
\* left it in.
C18_CancelIdempotent ==
    \A k \in 1..Len(vmHist) :
        LET c == vmHist[k]
        IN /\ ( /\ c.op = "cancel_transaction"
                /\ c.pre.current_state = "Idle" ) =>
                  /\ c.res.ok
                  /\ c.post = c.pre
           /\ ( /\ c.op = "cancel_transaction"
                /\ c.again
                /\ c.prior.current_state = "HasMoney" ) =>
                  c.post = c.pre

\* C18 happens: the second of two cancellations in a row has returned, on a
\* machine that was in HasMoney with coins in it before the first
C18_Witness ==
    /\ Len(vmHist) = 1
    /\ vmHist[1].op = "cancel_transaction"
    /\ vmHist[1].again
    /\ vmHist[1].prior.current_state = "HasMoney"
    /\ vmHist[1].prior.inserted_amount > 0
    /\ vmHist[1].pre.inserted_amount = 0
    /\ vmHist[1].res.ok
    /\ vm = vmHist[1].post

\* C19: exact change required.  In HasMoney, select_product(p) for a product
\* in stock with inserted_amount - price(p) above the change reserve returns
\* Err "Exact change required", the state stays HasMoney and the call
\* selects no product; select_product moves to Dispensing only when the
\* product exists, is in stock, is paid for and the reserve covers the
\* change.
C19_ExactChange ==
    \A k \in 1..Len(vmHist) :
        LET c == vmHist[k]
            pre == c.pre
            p == c.product_id
        IN c.op = "select_product" =>
            /\ ( /\ pre.current_state = "HasMoney"
                 /\ p \in ProductIds
                 /\ pre.products[p].stock > 0
                 /\ pre.inserted_amount >= pre.products[p].price
                 /\ pre.inserted_amount - pre.products[p].price
                        > pre.change_dispenser ) =>
                   /\ ~c.res.ok
                   /\ c.res.msg = "Exact change required"
                   /\ c.post.current_state = "HasMoney"
                   /\ c.post.selected_product = pre.selected_product
                   /\ c.installed # "Dispensing"
            /\ ( \/ c.installed = "Dispensing"
                 \/ ( c.post.current_state = "Dispensing"
                      /\ pre.current_state # "Dispensing" ) ) =>
                   /\ p \in ProductIds
                   /\ pre.products[p].stock > 0
                   /\ pre.inserted_amount >= pre.products[p].price
                   /\ pre.inserted_amount - pre.products[p].price
                          <= pre.change_dispenser

\* C19 happens: a paid-for product in stock was refused for want of change
C19_Witness ==
    /\ Len(vmHist) = 1
    /\ vmHist[1].op = "select_product"
    /\ vmHist[1].pre.current_state = "HasMoney"
    /\ vmHist[1].product_id = "D1"
    /\ vmHist[1].pre.products["D1"].stock > 0
    /\ vmHist[1].pre.inserted_amount = 100
    /\ vmHist[1].pre.change_dispenser = 0
    /\ vmHist[1].res.msg = "Exact change required"
    /\ vm = vmHist[1].post

\* the order of the colours
Successor(color) ==
    CASE color = "Red"    -> "Green"
      [] color = "Green"  -> "Yellow"
      [] color = "Yellow" -> "Red"

\* C20: duration-driven cycle.  With no emergency and no pedestrian request
\* the colour changes only on a tick at which elapsed time reaches the
\* duration of the current state (Red 30, Green 45, Yellow 5); the colour
\* then becomes the successor in Red -> Green -> Yellow -> Red and elapsed
\* time is 0; on every other tick the colour is unchanged and elapsed time
\* grows by 1.
C20_DurationCycle ==
    \A i \in 1..Len(tlHist) :
        LET pre == tlHist[i].pre
            post == tlHist[i].post
        IN ( /\ tlHist[i].op = "tick"
             /\ ~pre.emergency_mode
             /\ ~pre.is_pedestrian_requested ) =>
               IF pre.elapsed_time + 1 >= get_duration(pre.current_state)
               THEN /\ get_current_color(post)
                           = Successor(get_current_color(pre))
                    /\ post.elapsed_time = 0
               ELSE /\ get_current_color(post) = get_current_color(pre)
                    /\ post.elapsed_time = pre.elapsed_time + 1

\* C21: emergency hold.  While emergency_mode is set the light is Red after
\* every tick, and it is Red right after set_emergency_mode(true); the
\* emergency check comes before the duration-based transition.
C21_EmergencyHold ==
    \A i \in 1..Len(tlHist) :
        LET c == tlHist[i]
        IN /\ (c.op = "tick" /\ c.pre.emergency_mode) =>
                /\ get_current_color(c.post) = "Red"
                /\ c.post.emergency_mode
                /\ ~c.dispatched
           /\ (c.op = "set_emergency_mode" /\ c.enabled) =>
                /\ get_current_color(c.post) = "Red"
                /\ c.post.emergency_mode

\* C21 happens: a tick under emergency on a light that was not Red
C21_Witness ==
    /\ Len(tlHist) = 1
    /\ tlHist[1].op = "tick"
    /\ tlHist[1].pre.emergency_mode
    /\ get_current_color(tlHist[1].pre) = "Green"
    /\ tl = tlHist[1].post
    /\ get_current_color(tl) = "Red"

\* C22: pedestrian extension.  A request pending while the light is Green
\* with elapsed time below 45 defers the transition to Yellow once: at the
\* tick where the transition is due the request is cleared and the light
\* stays Green with elapsed time not restarted; with no request pending the
\* due tick is not deferred (one request, at most one deferral).
C22_PedestrianExtension ==
    \A i \in 1..Len(tlHist) :
        LET pre == tlHist[i].pre
            post == tlHist[i].post
        IN ( /\ tlHist[i].op = "tick"
             /\ ~pre.emergency_mode
             /\ get_current_color(pre) = "Green"
             /\ pre.elapsed_time < 45
             /\ pre.elapsed_time + 1 >= get_duration(pre.current_state) ) =>
               IF pre.is_pedestrian_requested
               THEN /\ get_current_color(post) = "Green"
                    /\ ~post.is_pedestrian_requested
                    /\ post.elapsed_time = pre.elapsed_time + 1
               ELSE get_current_color(post) = "Yellow"

\* C23: energy regeneration is capped.  Every update() raises energy by
\* exactly 1 when it is below 100 and leaves it at 100 otherwise; energy is
\* always within 0..100.
C23_EnergyCap ==
    /\ gc.energy \in 0..100
    /\ gcLast.op = "update" =>
         gcLast.post.energy = IF gcLast.pre.energy < 100
                              THEN gcLast.pre.energy + 1
                              ELSE gcLast.pre.energy

\* C23 happens: an update has brought a character that had spent energy
\* back to full energy
C23_Witness ==
    /\ gcLast.op = "update"
    /\ gcLast.pre.energy = 99
    /\ gc = gcLast.post
    /\ gc.energy = 100

\* where a character on the ground goes when a jump or an attack is over
Settled(vx) == IF Abs(vx) > 10 THEN "Walking" ELSE "Idle"

\* C24: inputs are rejected while attacking.  In Attacking, handle_input
\* with any input other than Attack returns an error, and the state,
\* energy, velocity and facing are unchanged.
C24_AttackingRejects ==
    ( /\ gcLast.op = "handle_input"
      /\ gcLast.pre.current_state.name = "Attacking"
      /\ gcLast.input # "Attack" ) =>
        /\ ~gcLast.res.ok
        /\ gcLast.post.current_state = gcLast.pre.current_state
        /\ gcLast.post.energy = gcLast.pre.energy
        /\ gcLast.post.velocity_0 = gcLast.pre.velocity_0
        /\ gcLast.post.velocity_1 = gcLast.pre.velocity_1
        /\ gcLast.post.facing_right = gcLast.pre.facing_right

\* C25: jumping while airborne is rejected.  handle_input(Jump) on a
\* character that is not grounded, in any state, returns an error and
\* leaves the state, energy and velocity unchanged.
C25_AirborneJump ==
    ( /\ gcLast.op = "handle_input"
      /\ gcLast.input = "Jump"
      /\ ~gcLast.pre.is_grounded ) =>
        /\ ~gcLast.res.ok
        /\ gcLast.post.current_state = gcLast.pre.current_state
        /\ gcLast.post.energy = gcLast.pre.energy
        /\ gcLast.post.velocity_0 = gcLast.pre.velocity_0
        /\ gcLast.post.velocity_1 = gcLast.pre.velocity_1

\* C26: an attack is time-boxed.  In Attacking the state stays Attacking
\* while the update time accumulated since the attack began is below 0.5 s;
\* the update at which it reaches 0.5 s moves the state to Walking if
\* |horizontal velocity| > 0.1 and to Idle otherwise.
C26_AttackTimeBox ==
    ( /\ gcLast.op = "update"
      /\ gcLast.pre.current_state.name = "Attacking" ) =>
        IF gcLast.pre.current_state.attack_timer + gcLast.delta_time < 5
        THEN GameCharacter_get_state_name(gcLast.post) = "Attacking"
        ELSE GameCharacter_get_state_name(gcLast.post)
                 = Settled(gcLast.pre.velocity_0)

\* C27: walking decays to Idle.  For a character in Walking, update() lowers
\* the horizontal speed; the state is Walking after the update while
\* |horizontal velocity| >= 0.1 and Idle at the update where it is below.
C27_WalkingDecay ==
    ( /\ gcLast.op = "update"
      /\ gcLast.pre.current_state.name = "Walking" ) =>
        /\ gcLast.pre.velocity_0 # 0 =>
               Abs(gcLast.post.velocity_0) < Abs(gcLast.pre.velocity_0)
        /\ GameCharacter_get_state_name(gcLast.post)
               = IF Abs(gcLast.post.velocity_0) < 10
                 THEN "Idle" ELSE "Walking"

\* C28: landing.  For a character in Jumping, update() leaves the state
\* Jumping while grounded is false; the update at which grounded is true
\* again moves the state to Walking if |horizontal velocity| > 0.1 and to
\* Idle otherwise.
C28_Landing ==
    ( /\ gcLast.op = "update"
      /\ gcLast.pre.current_state.name = "Jumping" ) =>
        IF ~gcLast.post.is_grounded
        THEN GameCharacter_get_state_name(gcLast.post) = "Jumping"
        ELSE GameCharacter_get_state_name(gcLast.post)
                 = Settled(gcLast.post.velocity_0)

\* C29: coin guard and accumulation.  insert_coin(0) returns Err in Idle and
\* in HasMoney and changes neither state nor inserted_amount; insert_coin(a)
\* with a > 0 in HasMoney returns Ok, adds exactly a and keeps HasMoney; so
\* in HasMoney inserted_amount is the sum of the coins accepted since the
\* machine was last Idle.
C29_CoinGuard ==
    /\ \A k \in 1..Len(vmHist) :
           LET c == vmHist[k]
           IN /\ ( /\ c.op = "insert_coin"
                   /\ c.amount = 0
                   /\ c.pre.current_state \in {"Idle", "HasMoney"} ) =>
                     /\ ~c.res.ok
                     /\ c.post.current_state = c.pre.current_state
                     /\ c.post.inserted_amount = c.pre.inserted_amount
              /\ ( /\ c.op = "insert_coin"
                   /\ c.amount > 0
                   /\ c.pre.current_state = "HasMoney" ) =>
                     /\ c.res.ok
                     /\ c.post.inserted_amount
                            = c.pre.inserted_amount + c.amount
                     /\ c.post.current_state = "HasMoney"
    /\ vm.current_state = "HasMoney" => vm.inserted_amount = vmCoins

\* the machines one dispatch call away
Dispatched(m) ==
    {VendingMachine_insert_coin(m, amount).m : amount \in Coins}
        \cup {VendingMachine_select_product(m, id).m : id \in SelectIds}
        \cup {VendingMachine_dispense(m).m,
              VendingMachine_cancel_transaction(m).m}

\* the machines at most n dispatch calls away from those of S
RECURSIVE Within(_, _)
Within(S, n) ==
    IF n = 0 THEN S
    ELSE Within(S \cup UNION {Dispatched(m) : m \in S}, n - 1)

\* C30: no absorbing state.  From every state reached by dispatch calls
\* some sequence of events brings the machine back to Idle with
\* inserted_amount 0, and each of Idle, HasMoney and Dispensing is reached
\* from a new machine by dispatch calls alone.
C30_NoAbsorbing ==
    /\ \E m \in Within({vm}, MaxEvents) :
           m.current_state = "Idle" /\ m.inserted_amount = 0
    /\ \A state \in VendingStates :
           \E m \in Within({VendingMachine_new}, MaxEvents) :
               m.current_state = state

\* C31: traffic light liveness.  Under ticks without end and nothing but
\* ticks (emergency mode never set), each of Red, Green and Yellow is shown
\* infinitely often.
C31_Liveness ==
    [](tlRun >= 0) =>
        /\ []<>(get_current_color(tl) = "Red")
        /\ []<>(get_current_color(tl) = "Green")
        /\ []<>(get_current_color(tl) = "Yellow")

\* C33: Idle means no open transaction.  In every state reached by dispatch
\* calls, a machine that reports Idle has inserted_amount 0 and no product
\* selected, and a machine with inserted_amount > 0 is in HasMoney or
\* Dispensing.
C33_IdleIsClosed ==
    /\ VendingMachine_get_state_name(vm) = "Idle" =>
           /\ vm.inserted_amount = 0
           /\ vm.selected_product = None
    /\ vm.inserted_amount > 0 =>
           VendingMachine_get_state_name(vm) \in {"HasMoney", "Dispensing"}

\* C34: stock changes only by dispensing.  No dispatch call raises a stock;
\* a stock changes only in a dispense() that returns Ok, which lowers the
\* stock of exactly the selected product by exactly 1; so every call removes
\* one unit if it is a successful dispense and none otherwise.
C34_StockFrame ==
    \A k \in 1..Len(vmHist) :
        LET c == vmHist[k]
            sold == c.op = "dispense" /\ c.res.ok
        IN /\ \A p \in ProductIds :
                  c.post.products[p].stock
                      = IF sold /\ c.pre.selected_product = Some(p)
                        THEN c.pre.products[p].stock - 1
                        ELSE c.pre.products[p].stock
           /\ Removed(c.pre, c.post) = IF sold THEN 1 ELSE 0

\* C35: elapsed time stays below the duration.  In every reachable state of
\* the light, and so after every tick, elapsed_time is below the duration of
\* the colour shown (30 Red, 45 Green, 5 Yellow); a tick that reports the
\* remaining time reports at least 1 second.
C35_ElapsedBelowDuration ==
    /\ tl.elapsed_time < get_duration(tl.current_state)
    /\ \A k \in 1..Len(tlHist) :
           LET c == tlHist[k]
           IN c.op = "tick" =>
                  /\ c.post.elapsed_time < get_duration(c.post.current_state)
                  /\ c.res.msg = "Current" => c.res.args[2] >= 1

\* a tick came due under Green with a request pending and restarted the count
C35_Witness ==
    /\ tlHist # <<>>
    /\ tlHist[1].op = "tick"
    /\ tlHist[1].dispatched
    /\ tlHist[1].pre.current_state = "Green"
    /\ tlHist[1].pre.elapsed_time = 44
    /\ tlHist[1].pre.is_pedestrian_requested
    /\ tl.elapsed_time = 0

\* C36: a pedestrian request is eventually served.  While ticks continue and
\* emergency mode stays off, a pending request is eventually no longer
\* pending.
C36_RequestServed ==
    [](~tl.emergency_mode) =>
        (tl.is_pedestrian_requested ~> ~tl.is_pedestrian_requested)

\* C37: recovery from emergency.  set_emergency_mode(false) leaves the colour
\* and the elapsed time unchanged; once emergency mode has been held through
\* at least one tick and is cleared, the light is Red with elapsed time 0;
\* and a full Red duration of ticks later the light has left Red.
C37_Recovery ==
    /\ \A k \in 1..Len(tlHist) :
           LET c == tlHist[k]
           IN c.op = "set_emergency_mode" /\ ~c.enabled =>
                  /\ get_current_color(c.post) = get_current_color(c.pre)
                  /\ c.post.elapsed_time = c.pre.elapsed_time
    /\ tlSince = 0 =>
           /\ get_current_color(tl) = "Red"
           /\ tl.elapsed_time = 0
    /\ tlSince = get_duration("Red") => get_current_color(tl) # "Red"

\* C39: the inserted amount does not wrap.  Over insert_coin calls with u32
\* amounts, no addition panics, and inserted_amount equals the sum of the
\* amounts accepted since it was last cleared.
C39_NoWrap ==
    /\ ~vmWide.panicked
    /\ <<0>> \o vmWide.machine.inserted_amount = vmWide.accepted

\* the names of the four operations, as get_available_actions spells them
ActionNames == {"insert_coin", "select_product", "dispense", "cancel_transaction"}

Listed(op, state) ==
    \E i \in DOMAIN get_available_actions(state) :
        get_available_actions(state)[i] = op

\* machines a handler can be called on: every amount of Coins inserted,
\* every selection
Contexts ==
    { [VendingMachine_new EXCEPT !.inserted_amount = a, !.selected_product = sp] :
          a \in Coins, sp \in {None} \cup {Some(id) : id \in ProductIds} }

\* the handler of `state` for `op` returns Ok in some context
CanSucceed(op, state) ==
    \E m \in Contexts :
        CASE op = "insert_coin" ->
               \E amount \in Coins : State_insert_coin(state, m, amount).res.ok
          [] op = "select_product" ->
               \E id \in SelectIds : State_select_product(state, m, id).res.ok
          [] op = "dispense" -> State_dispense(state, m).res.ok
          [] op = "cancel_transaction" -> State_cancel_transaction(state, m).res.ok

\* C38: available actions agree with behaviour.  For each vending state, an
\* operation returns Err in every context if and only if the state's
\* get_available_actions does not list it: a call of an operation that is
\* not listed returns Err, and a listed operation returns Ok in some context.
C38_ActionsAgree ==
    /\ \A k \in 1..Len(vmHist) :
           LET c == vmHist[k]
           IN ~Listed(c.op, c.pre.current_state) => ~c.res.ok
    /\ \A state \in VendingStates, op \in ActionNames :
           Listed(op, state) => CanSucceed(op, state)

\* C38 as the code has it: the same, except that cancel_transaction in Idle,
\* which is not listed, returns Ok.
C38_ActionsAgreeButCancel ==
    /\ \A k \in 1..Len(vmHist) :
           LET c == vmHist[k]
           IN ~Listed(c.op, c.pre.current_state) =>
                  (c.res.ok <=> (c.op = "cancel_transaction"
                                 /\ c.pre.current_state = "Idle"))
    /\ \A state \in VendingStates, op \in ActionNames :
           Listed(op, state) => CanSucceed(op, state)

\* dispense, which HasMoney does not list, was called with a product
\* selected and was rejected
C38_Witness ==
    /\ vmHist # <<>>
    /\ vmHist[1].op = "dispense"
    /\ vmHist[1].pre.current_state = "HasMoney"
    /\ vmHist[1].pre.selected_product # None
    /\ ~Listed("dispense", "HasMoney")
    /\ ~vmHist[1].res.ok

\* C40: declared transitions match actual transitions.  Whatever state a
\* character state handler installs in update or handle_input, the source
\* state's can_transition_to returns true for it.  A handler that installs
\* nothing leaves the placeholder IdleCharacterState of the dispatcher.
C40_DeclaredTransitions ==
    gcLast.op \in {"update", "handle_input"} =>
        LET source == gcLast.pre.current_state.name
        IN \/ can_transition_to(source, gcLast.installed)
           \/ source = "Idle" /\ gcLast.installed = "Idle"

\* an attack ran out on a moving character and its handler installed Walking
C40_Witness ==
    /\ gcLast.op = "update"
    /\ gcLast.pre.current_state.name = "Attacking"
    /\ gcLast.installed = "Walking"
    /\ can_transition_to("Attacking", "Walking")

=============================================================================
